---------------------------- MODULE Spec2Model ----------------------------
(***************************************************************************)
(* Model of the phone-number template validator and constrained generator  *)
(* of src/utils/vcf.ts (validatePattern, generatePhoneNumbers), and of the  *)
(* form of src/unnamed/part_000 that calls them.                           *)
(*                                                                         *)
(* Strings are sequences of one-character strings.  The density slider is  *)
(* a real in [0,1]; it is kept in hundredths (0.3 is 30), so the code's    *)
(* thresholds 0.4, 0.55, 0.7 are 40, 55, 70.  Math.random() is a           *)
(* nondeterministic digit.                                                 *)
(***************************************************************************)
EXTENDS Integers, Sequences, FiniteSets, TLC

VARIABLES
    pattern,            \* config.pattern
    count,              \* config.count
    contactNamePrefix,  \* config.contactNamePrefix
    options,            \* the options argument: undefined, or { repetitionDensity }
    excludeSet,         \* the caller's exclusion set
    generatedSet,       \* working copy: excludeSet plus accepted numbers
    results,            \* accepted contacts, in acceptance order
    attempts,           \* candidate-attempt counter
    candidateDigits,    \* digits placed so far in the current candidate
    digitCounts,        \* per-digit count of the current candidate
    k,                  \* index of the wildcard slot being filled
    retry,              \* draws used so far for slot k
    pc,                 \* position in the program
    returned,           \* value returned by generatePhoneNumbers
    error,              \* value returned by validatePattern
    uiPattern,          \* App state: pattern
    uiCount,            \* App state: count ('' or a number)
    uiPrefix,           \* App state: contactNamePrefix
    showAdvanced,       \* App state: showAdvanced
    repetitionDensity,  \* App state: repetitionDensity, in hundredths
    generatedContacts,  \* App state: generatedContacts
    isGenerating,       \* App state: isGenerating
    appError,           \* App state: error
    timer,              \* the pending setTimeout callback of startGeneration
    viewMode,           \* App state: viewMode, 'form' or 'preview'
    pending             \* the pending setTimeout callbacks of the list buttons

vars == <<pattern, count, contactNamePrefix, options, excludeSet, generatedSet,
          results, attempts, candidateDigits, digitCounts, k, retry, pc,
          returned, error, uiPattern, uiCount, uiPrefix, showAdvanced,
          repetitionDensity, generatedContacts, isGenerating, appError, timer,
          viewMode, pending>>

app == <<uiPattern, uiCount, uiPrefix, showAdvanced, repetitionDensity,
         generatedContacts, isGenerating, appError, timer, viewMode, pending>>

config == <<pattern, count, contactNamePrefix, options, excludeSet>>

-----------------------------------------------------------------------------
(* Program constants *)

PatternLength == 10         \* validatePattern: pattern.length !== 10
Radix == 10                 \* Math.floor(Math.random() * 10), Math.pow(10, n)
SlotRetries == 20           \* for (let retry = 0; retry < 20; retry++)
AttemptsPerTarget == 200    \* maxAttempts = targetCount * 200 + 5000
AttemptsBase == 5000
DefaultDensity == 30        \* options?.repetitionDensity ?? 0.3
StrictMax == 40             \* density <= 0.4
BalancedMax == 70           \* density <= 0.7
PermissiveMin == 55         \* density > 0.55
StrictShare == 35           \* Math.ceil(numUnknowns * 0.35)
BalancedShare == 60         \* Math.ceil(numUnknowns * 0.6)
MinDigitFreq == 2           \* Math.max(2, ...)

(* Bounds of the exploration *)

MaxTail == 7                \* symbols typed after the fixed prefix (validator)
MaxDrawnDigit == 2          \* random draws explored are 0..MaxDrawnDigit
AttemptHorizon == 3         \* candidate attempts explored per call
MaxCount == 2               \* largest count requested in the general runs
StrictAttemptHorizon == 1   \* candidate attempts explored in the 8-wildcard runs

\* the optional GenerationOptions argument (src/types.ts)
Undefined == [defined |-> FALSE]
Options(d) == [defined |-> TRUE, repetitionDensity |-> d]
Wildcard == "_"
DigitChars == <<"0", "1", "2", "3", "4", "5", "6", "7", "8", "9">>
Digits == {DigitChars[i] : i \in 1..Radix}

-----------------------------------------------------------------------------
(* Conversions *)

\* Number.prototype.toString of a single digit 0..9
DigitToString(n) == DigitChars[n + 1]

\* parseInt of a one-digit string
ParseInt(c) == CHOOSE n \in 0..(Radix - 1) : DigitChars[n + 1] = c

RECURSIVE IntToString(_)
\* Number.prototype.toString of a non-negative integer
IntToString(n) ==
    IF n < Radix THEN <<DigitToString(n)>>
    ELSE IntToString(n \div Radix) \o <<DigitToString(n % Radix)>>

\* the largest integer of the model; the source computes in doubles, which
\* hold 10^10 exactly
IntMax == 2147483647

RECURSIVE Pow10(_)
\* Math.pow(10, n).  10^10 does not fit the model's integers and is held as
\* IntMax: it is only ever compared with counts and set sizes far below it,
\* so Math.min and Math.max select what they select in the source.
Pow10(n) ==
    IF n = 0 THEN 1
    ELSE LET p == Pow10(n - 1)
         IN IF p > IntMax \div Radix THEN IntMax ELSE Radix * p

Min(a, b) == IF a <= b THEN a ELSE b
Max(a, b) == IF a >= b THEN a ELSE b

\* Math.ceil(n * share / 100) for n >= 0
CeilShare(n, share) == (n * share + 99) \div 100

\* zero-based indexing, as in the source
At(s, i) == s[i + 1]

-----------------------------------------------------------------------------
(* validatePattern *)

NoError == [kind |-> "null"]

IsAllowedChar(c) == c \in Digits \/ c = Wildcard

\* pattern.match(/[^0-9_]/g): every offending symbol, in order
InvalidChars(p) == SelectSeq(p, LAMBDA c : ~IsAllowedChar(c))

RECURSIVE UniqueLastWins(_)
\* variant of UniqueInOrder: a repeated symbol moves to the end
UniqueLastWins(s) ==
    IF s = <<>> THEN <<>>
    ELSE LET last == s[Len(s)]
         IN Append(SelectSeq(UniqueLastWins(SubSeq(s, 1, Len(s) - 1)),
                             LAMBDA c : c # last), last)

RECURSIVE UniqueInOrder(_)
\* Array.from(new Set(chars)): a Set keeps insertion order, first insertion wins
UniqueInOrder(s) ==
    IF s = <<>> THEN <<>>
    ELSE LET front == UniqueInOrder(SubSeq(s, 1, Len(s) - 1))
             last  == s[Len(s)]
         IN IF \E i \in 1..Len(front) : front[i] = last
            THEN front ELSE Append(front, last)

\* variant of validatePattern: the symbol check runs before the length check
validatePatternCharsFirst(p, opts) ==
    IF Len(p) = 0 THEN [kind |-> "EmptyInput"]
    ELSE IF InvalidChars(p) # <<>>
         THEN [kind |-> "InvalidCharacters",
               chars |-> UniqueInOrder(InvalidChars(p))]
    ELSE IF Len(p) # PatternLength
         THEN [kind |-> "InvalidLength", length |-> Len(p)]
    ELSE IF ~(\E i \in 1..Len(p) : p[i] = Wildcard)
         THEN [kind |-> "NoVariableSlots"]
    ELSE NoError

\* variant of validatePattern: the options are read, the loosest tier
\* accepts a template without a wildcard
validatePatternTierAware(p, opts) ==
    IF Len(p) = 0 THEN [kind |-> "EmptyInput"]
    ELSE IF Len(p) # PatternLength
         THEN [kind |-> "InvalidLength", length |-> Len(p)]
    ELSE IF InvalidChars(p) # <<>>
         THEN [kind |-> "InvalidCharacters",
               chars |-> UniqueInOrder(InvalidChars(p))]
    ELSE IF /\ ~(\E i \in 1..Len(p) : p[i] = Wildcard)
            /\ ~(opts.defined /\ opts.repetitionDensity > BalancedMax)
         THEN [kind |-> "NoVariableSlots"]
    ELSE NoError

\* the options argument is accepted and never read
validatePattern(p, opts) ==
    IF Len(p) = 0 THEN [kind |-> "EmptyInput"]
    ELSE IF Len(p) # PatternLength
         THEN [kind |-> "InvalidLength", length |-> Len(p)]
    ELSE IF InvalidChars(p) # <<>>
         THEN [kind |-> "InvalidCharacters",
               chars |-> UniqueInOrder(InvalidChars(p))]
    ELSE IF ~(\E i \in 1..Len(p) : p[i] = Wildcard)
         THEN [kind |-> "NoVariableSlots"]
    ELSE NoError

-----------------------------------------------------------------------------
(* generatePhoneNumbers: values computed once per call (lines 57-109) *)

RECURSIVE IndicesFrom(_, _)
\* the zero-based positions i >= from with p[i] === '_', ascending
IndicesFrom(p, from) ==
    IF from >= Len(p) THEN <<>>
    ELSE IF At(p, from) = Wildcard
         THEN <<from>> \o IndicesFrom(p, from + 1)
         ELSE IndicesFrom(p, from + 1)

MissingIndicesOf(p) == IndicesFrom(p, 0)

missingIndices == MissingIndicesOf(pattern)

numUnknowns == Len(missingIndices)

initialSize == Cardinality(excludeSet)

maxPossibilities == Pow10(numUnknowns)

remainingPossibilities == maxPossibilities - Cardinality(excludeSet)

\* variant of targetCount: the request is not capped by what is left
targetCountUncapped == count

targetCount == Min(count, Max(0, remainingPossibilities))

\* options?.repetitionDensity ?? 0.3
density == IF options.defined THEN options.repetitionDensity ELSE DefaultDensity

\* variant of maxDigitFreq: the shares are rounded down and have no floor of 2
maxDigitFreqRoundedDown ==
    IF density <= StrictMax
      THEN (numUnknowns * StrictShare) \div 100
    ELSE IF density <= BalancedMax
      THEN (numUnknowns * BalancedShare) \div 100
    ELSE numUnknowns

maxDigitFreq ==
    IF density <= StrictMax
      THEN Max(MinDigitFreq, CeilShare(numUnknowns, StrictShare))
    ELSE IF density <= BalancedMax
      THEN Max(MinDigitFreq, CeilShare(numUnknowns, BalancedShare))
    ELSE numUnknowns

\* variant of allowAdjacentDuplicates: the loose branch leaves the initial false
allowAdjacentDuplicatesUnsetInLoose ==
    IF density <= StrictMax THEN FALSE
    ELSE IF density <= BalancedMax THEN density > PermissiveMin
    ELSE FALSE

allowAdjacentDuplicates ==
    IF density <= StrictMax THEN FALSE
    ELSE IF density <= BalancedMax THEN density > PermissiveMin
    ELSE TRUE

\* variant of allowSequences: the balanced branch admits the boundary 0.55
allowSequencesFromBoundary ==
    IF density <= StrictMax THEN FALSE
    ELSE IF density <= BalancedMax THEN density >= PermissiveMin
    ELSE TRUE

allowSequences ==
    IF density <= StrictMax THEN FALSE
    ELSE IF density <= BalancedMax THEN density > PermissiveMin
    ELSE TRUE

maxAttempts == targetCount * AttemptsPerTarget + AttemptsBase

-----------------------------------------------------------------------------
(* generatePhoneNumbers: the per-slot rules (lines 127-149) *)

NoCounts == [c \in Digits |-> 0]

\* variant of FrequencyRejects: > where the code has >=
FrequencyRejectsAboveCap(d) == digitCounts[d] > maxDigitFreq

\* 1. Frequency Check
FrequencyRejects(d) == digitCounts[d] >= maxDigitFreq

\* 2. Adjacent Check
AdjacentRejects(d) ==
    ~allowAdjacentDuplicates /\ k > 0 /\ d = At(candidateDigits, k - 1)

\* variant of SequenceRejects: only the ascending run is tested
SequenceRejectsAscendingOnly(d) ==
    /\ ~allowSequences
    /\ k > 1
    /\ LET d1 == ParseInt(At(candidateDigits, k - 2))
           d2 == ParseInt(At(candidateDigits, k - 1))
           dCurrent == ParseInt(d)
       IN d2 = d1 + 1 /\ dCurrent = d2 + 1

\* 3. Sequence Check
SequenceRejects(d) ==
    /\ ~allowSequences
    /\ k > 1
    /\ LET d1 == ParseInt(At(candidateDigits, k - 2))
           d2 == ParseInt(At(candidateDigits, k - 1))
           dCurrent == ParseInt(d)
       IN \/ d2 = d1 + 1 /\ dCurrent = d2 + 1
          \/ d2 = d1 - 1 /\ dCurrent = d2 - 1

Rejects(d) == FrequencyRejects(d) \/ AdjacentRejects(d) \/ SequenceRejects(d)

-----------------------------------------------------------------------------
(* generatePhoneNumbers: assembly, uniqueness, ordering (lines 168-189) *)

\* variant of Splice: the digits land one position to the right
SpliceShifted(p, digits) ==
    LET idx == MissingIndicesOf(p)
    IN [i \in 1..Len(p) |->
          IF \E g \in 1..Len(idx) : idx[g] = i - 2
          THEN digits[CHOOSE g \in 1..Len(idx) : idx[g] = i - 2]
          ELSE p[i]]

\* finalNumberArr[patternIndex] = candidateDigits[generatedIndex], joined
Splice(p, digits) ==
    LET idx == MissingIndicesOf(p)
    IN [i \in 1..Len(p) |->
          IF \E g \in 1..Len(idx) : idx[g] = i - 1
          THEN digits[CHOOSE g \in 1..Len(idx) : idx[g] = i - 1]
          ELSE p[i]]

numberStr == Splice(pattern, candidateDigits)

\* variant of NewContact: the id counts from one, whatever the exclusion set
NewContactFromOne(number) ==
    [id |-> IntToString(Len(results) + 1),
     number |-> number,
     name |-> contactNamePrefix,
     isSaved |-> FALSE]

\* lines 179-184: the entity pushed for an accepted number
NewContact(number) ==
    [id |-> IntToString(initialSize + Len(results) + 1),
     number |-> number,
     name |-> contactNamePrefix,
     isSaved |-> FALSE]

RECURSIVE LocaleCompare(_, _)
\* a.localeCompare(b) on digit strings: -1, 0 or 1
LocaleCompare(a, b) ==
    IF a = <<>> /\ b = <<>> THEN 0
    ELSE IF a = <<>> THEN -1
    ELSE IF b = <<>> THEN 1
    ELSE IF ParseInt(Head(a)) < ParseInt(Head(b)) THEN -1
    ELSE IF ParseInt(Head(a)) > ParseInt(Head(b)) THEN 1
    ELSE LocaleCompare(Tail(a), Tail(b))

RECURSIVE InsertSorted(_, _)
\* c goes after every element that does not compare greater (stable)
InsertSorted(s, c) ==
    IF s = <<>> THEN <<c>>
    ELSE IF LocaleCompare(s[Len(s)].number, c.number) <= 0 THEN Append(s, c)
    ELSE Append(InsertSorted(SubSeq(s, 1, Len(s) - 1), c), s[Len(s)])

\* variant of SortByNumber: the list is returned in acceptance order
SortSkipped(s) == s

RECURSIVE SortByNumber(_)
\* results.sort((a, b) => a.number.localeCompare(b.number))
SortByNumber(s) ==
    IF s = <<>> THEN <<>>
    ELSE InsertSorted(SortByNumber(SubSeq(s, 1, Len(s) - 1)), s[Len(s)])

-----------------------------------------------------------------------------
(* generatePhoneNumbers: the steps *)

\* variant of LoopCondition: <= where the code has < on the attempt counter
LoopConditionInclusive == Len(results) < targetCount /\ attempts <= maxAttempts

\* while (results.length < targetCount && attempts < maxAttempts)
LoopCondition == Len(results) < targetCount /\ attempts < maxAttempts

\* variant of Call: the working set starts empty, the exclusion set is ignored
CallIgnoringExcludeSet ==
    /\ pc = "start"
    /\ generatedSet' = {}
    /\ results' = <<>>
    /\ attempts' = 0
    /\ pc' = "loop"
    /\ UNCHANGED <<config, app, candidateDigits, digitCounts, k, retry, returned, error>>

\* lines 57-109: entry of the call
Call ==
    /\ pc = "start"
    /\ generatedSet' = excludeSet
    /\ results' = <<>>
    /\ attempts' = 0
    /\ pc' = "loop"
    /\ UNCHANGED <<config, app, candidateDigits, digitCounts, k, retry, returned, error>>

\* lines 111-119: the loop test holds, a new candidate is started
WhileIter ==
    /\ pc = "loop"
    /\ LoopCondition
    /\ attempts' = attempts + 1
    /\ candidateDigits' = <<>>
    /\ digitCounts' = NoCounts
    /\ k' = 0
    /\ retry' = 0
    /\ pc' = IF numUnknowns > 0 THEN "slot" ELSE "assemble"
    /\ UNCHANGED <<config, app, generatedSet, results, returned, error>>

\* variant of Draw: after 20 rejected draws the same slot is tried afresh,
\* the candidate is kept
DrawRetriesSlot(n) ==
    LET d == DigitToString(n) IN
    /\ pc = "slot"
    /\ IF Rejects(d)
       THEN /\ retry' = IF retry + 1 < SlotRetries THEN retry + 1 ELSE 0
            /\ UNCHANGED <<candidateDigits, digitCounts, k, pc>>
       ELSE /\ candidateDigits' = Append(candidateDigits, d)
            /\ digitCounts' = [digitCounts EXCEPT ![d] = @ + 1]
            /\ k' = k + 1
            /\ retry' = 0
            /\ pc' = IF k + 1 < numUnknowns THEN "slot" ELSE "assemble"
    /\ UNCHANGED <<config, app, generatedSet, results, attempts, returned, error>>

\* lines 124-164: one random draw n for slot k
Draw(n) ==
    LET d == DigitToString(n) IN
    /\ pc = "slot"
    /\ IF Rejects(d)
       THEN IF retry + 1 < SlotRetries
            THEN \* continue: next retry for the same slot
                 /\ retry' = retry + 1
                 /\ UNCHANGED <<candidateDigits, digitCounts, k, pc>>
            ELSE \* no valid digit in 20 draws: abandon the candidate
                 /\ candidateDigits' = <<>>
                 /\ digitCounts' = NoCounts
                 /\ k' = 0
                 /\ retry' = 0
                 /\ pc' = "loop"
       ELSE /\ candidateDigits' = Append(candidateDigits, d)
            /\ digitCounts' = [digitCounts EXCEPT ![d] = @ + 1]
            /\ k' = k + 1
            /\ retry' = 0
            /\ pc' = IF k + 1 < numUnknowns THEN "slot" ELSE "assemble"
    /\ UNCHANGED <<config, app, generatedSet, results, attempts, returned, error>>

\* variant of Assemble: an accepted number is pushed but not added to the
\* working set
AssembleNoSetAdd ==
    /\ pc = "assemble"
    /\ IF numberStr \notin generatedSet
       THEN /\ results' = Append(results, NewContact(numberStr))
            /\ UNCHANGED generatedSet
       ELSE UNCHANGED <<generatedSet, results>>
    /\ candidateDigits' = <<>>
    /\ digitCounts' = NoCounts
    /\ k' = 0
    /\ retry' = 0
    /\ pc' = "loop"
    /\ UNCHANGED <<config, app, attempts, returned, error>>

\* variant of Assemble: the working set is the caller's set itself, so an
\* accepted number is added to the caller's set too
AssembleAliased ==
    /\ pc = "assemble"
    /\ IF numberStr \notin generatedSet
       THEN /\ generatedSet' = generatedSet \cup {numberStr}
            /\ excludeSet' = excludeSet \cup {numberStr}
            /\ results' = Append(results, NewContact(numberStr))
       ELSE UNCHANGED <<generatedSet, excludeSet, results>>
    /\ candidateDigits' = <<>>
    /\ digitCounts' = NoCounts
    /\ k' = 0
    /\ retry' = 0
    /\ pc' = "loop"
    /\ UNCHANGED <<pattern, count, contactNamePrefix, options, app, attempts,
                   returned, error>>

\* lines 166-186: the candidate is complete
Assemble ==
    /\ pc = "assemble"
    /\ IF numberStr \notin generatedSet
       THEN /\ generatedSet' = generatedSet \cup {numberStr}
            /\ results' = Append(results, NewContact(numberStr))
       ELSE UNCHANGED <<generatedSet, results>>
    /\ candidateDigits' = <<>>
    /\ digitCounts' = NoCounts
    /\ k' = 0
    /\ retry' = 0
    /\ pc' = "loop"
    /\ UNCHANGED <<config, app, attempts, returned, error>>

\* lines 188-191: the loop test fails, sort and return
Return ==
    /\ pc = "loop"
    /\ ~LoopCondition
    /\ results' = SortByNumber(results)
    /\ returned' = SortByNumber(results)
    /\ pc' = "done"
    /\ UNCHANGED <<config, app, generatedSet, attempts, candidateDigits, digitCounts,
                   k, retry, error>>

\* validatePattern(pattern, options), lines 24-45
Validate ==
    /\ pc = "validate"
    /\ error' = validatePattern(pattern, options)
    /\ pc' = "validated"
    /\ UNCHANGED <<config, app, generatedSet, results, attempts, candidateDigits,
                   digitCounts, k, retry, returned>>

-----------------------------------------------------------------------------
(* Inputs *)

RECURSIVE SeqsUpTo(_, _)
\* the sequences over alphabet of length at most n
SeqsUpTo(alphabet, n) ==
    IF n = 0 THEN {<<>>}
    ELSE LET shorter == SeqsUpTo(alphabet, n - 1)
         IN shorter \cup {Append(s, c) : s \in {t \in shorter : Len(t) = n - 1},
                                          c \in alphabet}

\* templates handed to the validator: a fixed prefix and a typed tail
ValidatorPrefix == <<"0", "5", "1", "2">>
ValidatorAlphabet == {"3", Wildcard, "a", "+"}
ValidatorInputs ==
    {<<>>} \cup {ValidatorPrefix \o t : t \in SeqsUpTo(ValidatorAlphabet, MaxTail)}

\* templates handed to the generator, with 1, 2 and 3 wildcards
OneSlot == <<"0", "5", "1", "2", "_", "3", "4", "5", "6", "7">>
TwoSlots == <<"0", "5", "_", "1", "2", "3", "_", "4", "5", "6">>
TwoSlotsAtEnds == <<"_", "5", "1", "2", "3", "4", "5", "6", "7", "_">>
ThreeSlots == <<"0", "5", "_", "_", "1", "2", "3", "4", "_", "5">>
EightSlots == <<"0", "5", "_", "_", "_", "_", "_", "_", "_", "_">>
EightSlotsSplit == <<"_", "_", "_", "1", "_", "_", "_", "_", "1", "_">>

DrawnDigits == 0..MaxDrawnDigit
AllDigits == 0..(Radix - 1)

\* the numbers of template p whose single wildcard holds a digit of ns
OneSlotNumbers(p, ns) == {Splice(p, <<DigitToString(n)>>) : n \in ns}

\* useState('') and useState(n) of the count field
EmptyCount == [text |-> TRUE, value |-> 0]
CountOf(n) == [text |-> FALSE, value |-> n]
\* useState('TEST <')
DefaultPrefix == "TEST <"
\* useState<string | null>(null) of the error message
NoAppError == [kind |-> "null"]
\* no startGeneration callback is waiting
NoTimer == [set |-> FALSE]

\* useState<number>(0.3)
InitialRepetitionDensity == 30

\* the locals of a call not yet made
InitLocals ==
    /\ generatedSet = {}
    /\ results = <<>>
    /\ attempts = 0
    /\ candidateDigits = <<>>
    /\ digitCounts = NoCounts
    /\ k = 0
    /\ retry = 0
    /\ returned = <<>>
    /\ error = NoError

\* lines 87-100: the form as constructed, but for its pattern
InitFormBut ==
    /\ uiCount = EmptyCount
    /\ uiPrefix = DefaultPrefix
    /\ showAdvanced = FALSE
    /\ repetitionDensity = InitialRepetitionDensity
    /\ generatedContacts = <<>>
    /\ isGenerating = FALSE
    /\ appError = NoAppError
    /\ timer = NoTimer
    /\ viewMode = "form"
    /\ pending = <<>>

\* a call of the library made on its own: the form is as constructed
Init0 ==
    /\ contactNamePrefix = "X"
    /\ InitLocals
    /\ uiPattern = EightSlots
    /\ InitFormBut

\* calls of the generator on small validated templates
Init ==
    /\ Init0
    /\ pc = "start"
    /\ \/ /\ pattern = OneSlot
          /\ count \in -1..MaxCount
          /\ options \in {Undefined, Options(100)}
          /\ excludeSet \in {{}, OneSlotNumbers(OneSlot, {1}),
                             OneSlotNumbers(OneSlot, AllDigits \ {1}),
                             OneSlotNumbers(OneSlot, AllDigits)}
       \/ /\ pattern = TwoSlots
          /\ count = 2
          /\ options \in {Options(56), Options(100)}
          /\ excludeSet \in {{}, {Splice(TwoSlots, <<"1", "0">>)}}
       \/ /\ pattern \in {TwoSlots, TwoSlotsAtEnds}
          /\ count = 1
          /\ options \in {Undefined, Options(55)}
          /\ excludeSet \in {{}, {Splice(pattern, <<"1", "0">>)}}
       \/ /\ pattern = ThreeSlots
          /\ count = 1
          /\ options \in {Undefined, Options(0), Options(40), Options(41),
                          Options(55), Options(56), Options(70), Options(71),
                          Options(100)}
          /\ excludeSet \in {{}, {Splice(ThreeSlots, <<"0", "1", "0">>)},
                             {Splice(ThreeSlots, <<"1", "1", "1">>)}}
    /\ validatePattern(pattern, options) = NoError

Next ==
    \/ Call
    \/ attempts < AttemptHorizon /\ WhileIter
    \/ \E n \in DrawnDigits : Draw(n)
    \/ Assemble
    \/ Return

Spec == Init /\ [][Next]_vars

\* calls that can exhaust the attempt cap: one wildcard with nine or all ten
\* of its numbers excluded, and a strict call on two wildcards
InitCap ==
    /\ Init0
    /\ pc = "start"
    /\ options = Undefined
    /\ \/ /\ pattern = OneSlot
          /\ count \in {0, 1000}
          /\ excludeSet \in {OneSlotNumbers(OneSlot, AllDigits \ {1}),
                             OneSlotNumbers(OneSlot, AllDigits)}
       \/ /\ pattern = TwoSlots
          /\ count = 1
          /\ excludeSet = {}
    /\ validatePattern(pattern, options) = NoError

\* the draws explored up to the cap: every digit for the one-wildcard calls;
\* for the two-wildcard call the streams that draw 0 every time, on which
\* each candidate is abandoned at its second slot
CapDraws == IF numUnknowns = 1 THEN AllDigits ELSE {0}

NextCap ==
    \/ Call
    \/ WhileIter
    \/ \E n \in CapDraws : Draw(n)
    \/ Assemble
    \/ Return

\* the call is synchronous and runs to its return: weak fairness of its steps
SpecCap == InitCap /\ [][NextCap]_vars /\ WF_vars(NextCap)

\* strict-tier calls on templates with eight wildcards
InitStrict8 ==
    /\ Init0
    /\ pc = "start"
    /\ pattern \in {EightSlots, EightSlotsSplit}
    /\ count = 1
    /\ options \in {Undefined, Options(40)}
    /\ excludeSet = {}
    /\ validatePattern(pattern, options) = NoError

NextStrict8 ==
    \/ Call
    \/ attempts < StrictAttemptHorizon /\ WhileIter
    \/ \E n \in DrawnDigits : Draw(n)
    \/ Assemble
    \/ Return

SpecStrict8 == InitStrict8 /\ [][NextStrict8]_vars

\* calls of the validator
InitValidate ==
    /\ Init0
    /\ pc = "validate"
    /\ pattern \in ValidatorInputs
    /\ count = 1
    /\ options \in {Undefined, Options(100)}
    /\ excludeSet = {}

NextValidate == Validate

SpecValidate == InitValidate /\ [][NextValidate]_vars

\* a template of ten symbols whose last n are wildcards
TemplateWithSlots(n) ==
    [i \in 1..PatternLength |-> IF i <= PatternLength - n THEN "5" ELSE Wildcard]

\* the slider's scale: densities run over 0..DensityScale hundredths
DensityScale == 100

\* calls that ask for nothing, on every number of wildcards and every tier
InitProfile ==
    /\ Init0
    /\ pc = "start"
    /\ pattern \in {TemplateWithSlots(n) : n \in 1..PatternLength}
    /\ count = 0
    /\ options \in {Undefined} \cup {Options(t) : t \in 0..DensityScale}
    /\ excludeSet = {}
    /\ validatePattern(pattern, options) = NoError

NextProfile ==
    \/ Call
    \/ Return

SpecProfile == InitProfile /\ [][NextProfile]_vars

\* a template with four wildcards, in two pairs
FourSlots == <<"0", "5", "_", "_", "1", "2", "_", "_", "3", "4">>

\* the draws explored for the run rule: both ends of the digit range
RunDraws == {0, 1, 2, 8, 9}

\* calls on three and four wildcards, around the boundary 0.55
InitRuns ==
    /\ Init0
    /\ pc = "start"
    /\ pattern \in {ThreeSlots, FourSlots}
    /\ count = 1
    /\ options \in {Undefined, Options(55), Options(56)}
    /\ excludeSet = {}
    /\ validatePattern(pattern, options) = NoError

NextRuns ==
    \/ Call
    \/ attempts < AttemptHorizon /\ WhileIter
    \/ \E n \in RunDraws : Draw(n)
    \/ Assemble
    \/ Return

SpecRuns == InitRuns /\ [][NextRuns]_vars

\* calls on every number of wildcards from 1 to 10, in each of the four
\* profiles: strict, balanced below and above 0.55, loose
InitSlots ==
    /\ Init0
    /\ pc = "start"
    /\ pattern \in {TemplateWithSlots(n) : n \in 1..PatternLength}
    /\ count = 1
    /\ options \in {Undefined, Options(55), Options(56), Options(100)}
    /\ excludeSet = {}
    /\ validatePattern(pattern, options) = NoError

\* the draws explored per slot: every digit up to three wildcards; beyond,
\* three digits (two of them neighbours) where adjacency and runs are
\* tested, two digits where only the frequency cap is
SlotDraws ==
    IF numUnknowns <= 3 THEN AllDigits
    ELSE IF allowSequences THEN {1, 2}
    ELSE {1, 2, 5}

NextSlots ==
    \/ Call
    \/ attempts < StrictAttemptHorizon /\ WhileIter
    \/ \E n \in SlotDraws : Draw(n)
    \/ Assemble
    \/ Return

SpecSlots == InitSlots /\ [][NextSlots]_vars

\* a second template with one wildcard; none of its numbers matches OneSlot
OtherOneSlot == <<"0", "5", "9", "8", "_", "3", "4", "5", "6", "7">>

\* calls whose exclusion set holds numbers of an earlier template, as the
\* form's accumulated list does after the pattern was changed
InitForeign ==
    /\ Init0
    /\ pc = "start"
    /\ pattern \in {OneSlot, TwoSlots}
    /\ count \in 1..MaxCount
    /\ options = Options(100)
    /\ excludeSet \in
         {{},
          OneSlotNumbers(OtherOneSlot, AllDigits \ {9}),
          OneSlotNumbers(OtherOneSlot, AllDigits),
          OneSlotNumbers(OtherOneSlot, AllDigits \ {9})
             \cup OneSlotNumbers(OneSlot, {0})}
    /\ validatePattern(pattern, options) = NoError

NextForeign ==
    \/ Call
    \/ attempts < AttemptHorizon /\ WhileIter
    \/ \E n \in DrawnDigits : Draw(n)
    \/ Assemble
    \/ Return

SpecForeign == InitForeign /\ [][NextForeign]_vars

\* the caller moves the density slider between two calls of the validator
ChangeTier ==
    /\ pc = "validated"
    /\ options' \in {Options(0), Options(100)}
    /\ options' # options
    /\ UNCHANGED <<pattern, count, contactNamePrefix, excludeSet, app,
                   generatedSet, results, attempts, candidateDigits,
                   digitCounts, k, retry, returned, error, pc>>

\* validatePattern(pattern, options) once more, on the same template
Revalidate ==
    /\ pc = "validated"
    /\ error' = validatePattern(pattern, options)
    /\ pc' = "revalidated"
    /\ UNCHANGED <<config, app, generatedSet, results, attempts, candidateDigits,
                   digitCounts, k, retry, returned>>

\* two calls of the validator on one template, the tier moving in between
InitValidateTwice ==
    /\ Init0
    /\ pc = "validate"
    /\ pattern \in ValidatorInputs
    /\ count = 1
    /\ options = Undefined
    /\ excludeSet = {}

NextValidateTwice ==
    \/ Validate
    \/ ChangeTier
    \/ Revalidate

SpecValidateTwice == InitValidateTwice /\ [][NextValidateTwice]_vars

-----------------------------------------------------------------------------
(* The form of src/unnamed/part_000: fields, validateInputs, startGeneration *)

\* Number(count) of the count state
NumberOf(c) == IF c.text THEN 0 ELSE c.value

\* the largest count the form accepts
MaxRequest == 10000

\* !contactNamePrefix.trim(), on the prefixes typed here
IsBlank(str) == str \in {"", " "}

\* showAdvanced ? { repetitionDensity } : undefined
FormOptions == IF showAdvanced THEN Options(repetitionDensity) ELSE Undefined

\* variant of validateInputs: the template is not validated
validateInputsWithoutPattern ==
    IF NumberOf(uiCount) <= 0 \/ NumberOf(uiCount) > MaxRequest
         THEN [kind |-> "CountOutOfRange"]
    ELSE IF IsBlank(uiPrefix) THEN [kind |-> "EmptyPrefix"]
    ELSE NoAppError

\* lines 194-217: the error it sets, or null where it returns true
validateInputs ==
    IF validatePattern(uiPattern, FormOptions) # NoError
         THEN validatePattern(uiPattern, FormOptions)
    ELSE IF NumberOf(uiCount) <= 0 \/ NumberOf(uiCount) > MaxRequest
         THEN [kind |-> "CountOutOfRange"]
    ELSE IF IsBlank(uiPrefix) THEN [kind |-> "EmptyPrefix"]
    ELSE NoAppError

\* what the generator's locals are outside a call
LocalsReset ==
    /\ generatedSet' = {}
    /\ results' = <<>>
    /\ attempts' = 0
    /\ returned' = <<>>
    /\ UNCHANGED <<candidateDigits, digitCounts, k, retry, error>>

locals == <<generatedSet, results, attempts, candidateDigits, digitCounts, k,
            retry, returned, error>>

\* useEffect of lines 105-108: a changed field clears the error message
ClearedIf(changed) == IF changed THEN NoAppError ELSE appError

\* lines 111-139, index >= 2 and a value of one symbol
handlePatternSlotChange(index, value) ==
    /\ pc = "idle"
    /\ viewMode = "form"
    /\ UNCHANGED <<viewMode, pending>>
    /\ index >= 2
    /\ IsAllowedChar(value)
    /\ uiPattern' = [uiPattern EXCEPT ![index + 1] = value]
    /\ appError' = ClearedIf(uiPattern' # uiPattern)
    /\ UNCHANGED <<config, locals, pc, uiCount, uiPrefix, showAdvanced,
                   repetitionDensity, generatedContacts, isGenerating, timer>>

\* lines 171-192; value is the typed text: blank, or the text of an integer
handleCountChange(value) ==
    /\ pc = "idle"
    /\ viewMode = "form"
    /\ UNCHANGED <<viewMode, pending>>
    /\ uiCount' = IF value.text THEN EmptyCount
                  ELSE IF value.value > MaxRequest THEN CountOf(MaxRequest)
                  ELSE IF value.value < 0 THEN CountOf(0)
                  ELSE CountOf(value.value)
    /\ appError' = ClearedIf(uiCount' # uiCount)
    /\ UNCHANGED <<config, locals, pc, uiPattern, uiPrefix, showAdvanced,
                   repetitionDensity, generatedContacts, isGenerating, timer>>

\* line 591
setContactNamePrefix(value) ==
    /\ pc = "idle"
    /\ viewMode = "form"
    /\ UNCHANGED <<viewMode, pending>>
    /\ uiPrefix' = value
    /\ appError' = ClearedIf(uiPrefix' # uiPrefix)
    /\ UNCHANGED <<config, locals, pc, uiPattern, uiCount, showAdvanced,
                   repetitionDensity, generatedContacts, isGenerating, timer>>

\* line 604
onToggle ==
    /\ pc = "idle"
    /\ viewMode = "form"
    /\ UNCHANGED <<viewMode, pending>>
    /\ showAdvanced' = ~showAdvanced
    /\ UNCHANGED <<config, locals, pc, uiPattern, uiCount, uiPrefix,
                   repetitionDensity, generatedContacts, isGenerating,
                   appError, timer>>

\* line 625; the slider is rendered only while the card is open
setRepetitionDensity(value) ==
    /\ pc = "idle"
    /\ viewMode = "form"
    /\ UNCHANGED <<viewMode, pending>>
    /\ showAdvanced
    /\ repetitionDensity' = value
    /\ appError' = ClearedIf(repetitionDensity' # repetitionDensity)
    /\ UNCHANGED <<config, locals, pc, uiPattern, uiCount, uiPrefix,
                   showAdvanced, generatedContacts, isGenerating, timer>>

\* lines 219-236 and 301: the click; both buttons are disabled while
\* isGenerating.  The callback closes over this render's values.
startGeneration(mode) ==
    /\ pc = "idle"
    /\ viewMode = "form"
    /\ UNCHANGED <<viewMode, pending>>
    /\ ~isGenerating
    /\ IF validateInputs # NoAppError
       THEN /\ appError' = validateInputs
            /\ UNCHANGED <<isGenerating, timer>>
       ELSE /\ isGenerating' = TRUE
            /\ appError' = NoAppError
            /\ timer' = [set |-> TRUE,
                         pattern |-> uiPattern,
                         count |-> NumberOf(uiCount),
                         contactNamePrefix |-> uiPrefix,
                         options |-> FormOptions,
                         generatedContacts |-> generatedContacts,
                         mode |-> mode]
    /\ UNCHANGED <<config, locals, pc, uiPattern, uiCount, uiPrefix,
                   showAdvanced, repetitionDensity, generatedContacts>>

\* variant of startGenerationCallback: no exclusion set is built from the list
startGenerationCallbackWithoutExclusions ==
    /\ pc = "idle"
    /\ timer.set
    /\ pattern' = timer.pattern
    /\ count' = timer.count
    /\ contactNamePrefix' = timer.contactNamePrefix
    /\ options' = timer.options
    /\ excludeSet' = {}
    /\ pc' = "start"
    /\ UNCHANGED <<locals, app>>

\* lines 236-242: the timeout fires and the callback calls the generator on
\* the closure's config, options and list
startGenerationCallback ==
    /\ pc = "idle"
    /\ timer.set
    /\ pattern' = timer.pattern
    /\ count' = timer.count
    /\ contactNamePrefix' = timer.contactNamePrefix
    /\ options' = timer.options
    /\ excludeSet' = {timer.generatedContacts[i].number :
                         i \in 1..Len(timer.generatedContacts)}
    /\ pc' = "start"
    /\ UNCHANGED <<locals, app>>

\* (index + 1).toString().padStart(4, '0')
PadStart4(digits) ==
    [i \in 1..(4 - Len(digits)) |-> "0"] \o digits

\* lines 257-263: ids and names rewritten from the positions
ReIndexed(contacts, prefix) ==
    [i \in 1..Len(contacts) |->
        [contacts[i] EXCEPT !.id = PadStart4(IntToString(i)),
                            !.name = PadStart4(IntToString(i)) \o <<" ", prefix>>]]

\* lines 284-289: the contacts of the new batch are marked saved
MarkedSaved(contacts, batch) ==
    [i \in 1..Len(contacts) |->
        IF \E j \in 1..Len(batch) : batch[j].number = contacts[i].number
        THEN [contacts[i] EXCEPT !.isSaved = TRUE]
        ELSE contacts[i]]

\* lines 244-300: the generator has returned to the callback
startGenerationMerge ==
    /\ pc = "done"
    /\ timer.set
    /\ IF returned = <<>>
       THEN /\ appError' = [kind |-> "NoNewNumbers"]
            /\ UNCHANGED <<generatedContacts, viewMode>>
       ELSE LET combinedContacts ==
                    SortByNumber(timer.generatedContacts \o returned)
                reIndexedContacts ==
                    ReIndexed(combinedContacts, timer.contactNamePrefix)
            IN /\ generatedContacts' =
                     IF timer.mode = "preview" THEN reIndexedContacts
                     ELSE MarkedSaved(reIndexedContacts, returned)
               /\ viewMode' = "preview"
               /\ UNCHANGED appError
    /\ isGenerating' = FALSE
    /\ timer' = NoTimer
    /\ pc' = "idle"
    /\ LocalsReset
    /\ UNCHANGED <<config, uiPattern, uiCount, uiPrefix, showAdvanced,
                   repetitionDensity, pending>>

\* line 508: the header's back button, shown in the preview
back ==
    /\ pc = "idle"
    /\ viewMode = "preview"
    /\ viewMode' = "form"
    /\ UNCHANGED <<config, locals, pc, uiPattern, uiCount, uiPrefix,
                   showAdvanced, repetitionDensity, generatedContacts,
                   isGenerating, appError, timer, pending>>

\* a pending callback of a list button: its handler and what it closes over
Closure(kind, contacts, prefix) ==
    [kind |-> kind, generatedContacts |-> contacts, contactNamePrefix |-> prefix]

\* the sequence s without its i-th element
RemoveAt(s, i) == SubSeq(s, 1, i - 1) \o SubSeq(s, i + 1, Len(s))

\* prev.map(c => ({ ...c, isSaved: flag }))
WithSaved(contacts, flag) ==
    [i \in 1..Len(contacts) |-> [contacts[i] EXCEPT !.isSaved = flag]]

IsSaved(c) == c.isSaved
IsUnsaved(c) == ~c.isSaved

\* lines 304-319; an empty list returns at once
saveCurrentList ==
    /\ pc = "idle"
    /\ viewMode = "preview"
    /\ generatedContacts # <<>>
    /\ generatedContacts' = WithSaved(generatedContacts, TRUE)
    /\ UNCHANGED <<config, locals, pc, uiPattern, uiCount, uiPrefix,
                   showAdvanced, repetitionDensity, isGenerating, appError,
                   timer, viewMode, pending>>

\* lines 321-324: the click; an empty list returns at once
handleClearAppList ==
    /\ pc = "idle"
    /\ viewMode = "preview"
    /\ generatedContacts # <<>>
    /\ pending' = Append(pending, Closure("clear", <<>>, ""))
    /\ UNCHANGED <<config, locals, pc, uiPattern, uiCount, uiPrefix,
                   showAdvanced, repetitionDensity, generatedContacts,
                   isGenerating, appError, timer, viewMode>>

\* lines 324-334: the timeout fires; ok is the answer to window.confirm
handleClearAppListCallback(i, ok) ==
    /\ pc = "idle"
    /\ i \in 1..Len(pending)
    /\ pending[i].kind = "clear"
    /\ pending' = RemoveAt(pending, i)
    /\ IF ok
       THEN /\ generatedContacts' = <<>>
            /\ viewMode' = "form"
            /\ appError' = NoAppError
       ELSE UNCHANGED <<generatedContacts, viewMode, appError>>
    /\ UNCHANGED <<config, locals, pc, uiPattern, uiCount, uiPrefix,
                   showAdvanced, repetitionDensity, isGenerating, timer>>

\* lines 337-342: the click; an empty list returns at once
handleResetSavedStatus ==
    /\ pc = "idle"
    /\ viewMode = "preview"
    /\ generatedContacts # <<>>
    /\ pending' = Append(pending, Closure("reset", <<>>, ""))
    /\ UNCHANGED <<config, locals, pc, uiPattern, uiCount, uiPrefix,
                   showAdvanced, repetitionDensity, generatedContacts,
                   isGenerating, appError, timer, viewMode>>

\* lines 342-349: the timeout fires
handleResetSavedStatusCallback(i, ok) ==
    /\ pc = "idle"
    /\ i \in 1..Len(pending)
    /\ pending[i].kind = "reset"
    /\ pending' = RemoveAt(pending, i)
    /\ generatedContacts' = IF ok THEN WithSaved(generatedContacts, FALSE)
                             ELSE generatedContacts
    /\ UNCHANGED <<config, locals, pc, uiPattern, uiCount, uiPrefix,
                   showAdvanced, repetitionDensity, isGenerating, appError,
                   timer, viewMode>>

\* lines 352-365: the click.  With nothing unsaved it only reports; else the
\* callback closes over this render's list and prefix.
handleDeleteUnsaved ==
    /\ pc = "idle"
    /\ viewMode = "preview"
    /\ IF SelectSeq(generatedContacts, IsUnsaved) = <<>>
       THEN IF generatedContacts # <<>>
            THEN /\ appError' = [kind |-> "AllSaved"]
                 /\ pending' = Append(pending, Closure("clearError", <<>>, ""))
            ELSE /\ appError' = [kind |-> "ListEmpty"]
                 /\ UNCHANGED pending
       ELSE /\ pending' = Append(pending,
                                 Closure("delete", generatedContacts, uiPrefix))
            /\ UNCHANGED appError
    /\ UNCHANGED <<config, locals, pc, uiPattern, uiCount, uiPrefix,
                   showAdvanced, repetitionDensity, generatedContacts,
                   isGenerating, timer, viewMode>>

\* line 358: setTimeout(() => setError(null), 3000) fires
handleDeleteUnsavedClearError(i) ==
    /\ pc = "idle"
    /\ i \in 1..Len(pending)
    /\ pending[i].kind = "clearError"
    /\ pending' = RemoveAt(pending, i)
    /\ appError' = NoAppError
    /\ UNCHANGED <<config, locals, pc, uiPattern, uiCount, uiPrefix,
                   showAdvanced, repetitionDensity, generatedContacts,
                   isGenerating, timer, viewMode>>

\* lines 365-389: the timeout fires
handleDeleteUnsavedCallback(i, ok) ==
    /\ pc = "idle"
    /\ i \in 1..Len(pending)
    /\ pending[i].kind = "delete"
    /\ pending' = RemoveAt(pending, i)
    /\ IF ok
       THEN LET remainingContacts ==
                    SelectSeq(pending[i].generatedContacts, IsSaved)
                reIndexed ==
                    ReIndexed(remainingContacts, pending[i].contactNamePrefix)
            IN /\ generatedContacts' = reIndexed
               /\ viewMode' = IF reIndexed = <<>> THEN "form" ELSE viewMode
       ELSE UNCHANGED <<generatedContacts, viewMode>>
    /\ UNCHANGED <<config, locals, pc, uiPattern, uiCount, uiPrefix,
                   showAdvanced, repetitionDensity, isGenerating, appError,
                   timer>>

\* callbacks of the list buttons explored as pending at one time
MaxPending == 2

\* the invalid template the form reaches from OneSlot by typing a digit
NoSlot == <<"0", "5", "1", "2", "8", "3", "4", "5", "6", "7">>

\* the form with a one-wildcard template typed in, nothing else touched
InitApp ==
    /\ pc = "idle"
    /\ pattern = OneSlot
    /\ count = 0
    /\ contactNamePrefix = DefaultPrefix
    /\ options = Undefined
    /\ excludeSet = {}
    /\ InitLocals
    /\ uiPattern = OneSlot
    /\ InitFormBut

\* what is typed into the fields
TypedSlotValues == {Wildcard, "8"}
TypedCounts == {EmptyCount, CountOf(-1), CountOf(MaxRequest + 1)}
                  \cup {CountOf(n) : n \in 1..MaxCount}
TypedPrefixes == {DefaultPrefix, " "}
SliderStops == {InitialRepetitionDensity, DensityScale}
AppDraws == {0, 1}

NextApp ==
    \/ \E value \in TypedSlotValues : handlePatternSlotChange(4, value)
    \/ \E value \in TypedCounts : handleCountChange(value)
    \/ \E value \in TypedPrefixes : setContactNamePrefix(value)
    \/ onToggle
    \/ \E value \in SliderStops : setRepetitionDensity(value)
    \/ \E mode \in {"preview", "save"} : startGeneration(mode)
    \/ startGenerationCallback
    \/ Call
    \/ attempts < AttemptHorizon /\ WhileIter
    \/ \E n \in AppDraws : Draw(n)
    \/ Assemble
    \/ Return
    \/ startGenerationMerge
    \/ back

SpecApp == InitApp /\ [][NextApp]_vars

\* the counts typed while the list is exercised
ListCounts == {CountOf(n) : n \in 1..MaxCount}

\* the form and its list: generation, the list buttons, their callbacks
NextList ==
    \/ \E value \in ListCounts : handleCountChange(value)
    \/ \E mode \in {"preview", "save"} : startGeneration(mode)
    \/ startGenerationCallback
    \/ Call
    \/ attempts < AttemptHorizon /\ WhileIter
    \/ \E n \in AppDraws : Draw(n)
    \/ Assemble
    \/ Return
    \/ startGenerationMerge
    \/ back
    \/ saveCurrentList
    \/ Len(pending) < MaxPending /\ handleClearAppList
    \/ Len(pending) < MaxPending /\ handleResetSavedStatus
    \/ Len(pending) < MaxPending /\ handleDeleteUnsaved
    \/ \E i \in 1..MaxPending, ok \in BOOLEAN :
          handleClearAppListCallback(i, ok)
    \/ \E i \in 1..MaxPending, ok \in BOOLEAN :
          handleResetSavedStatusCallback(i, ok)
    \/ \E i \in 1..MaxPending, ok \in BOOLEAN :
          handleDeleteUnsavedCallback(i, ok)
    \/ \E i \in 1..MaxPending : handleDeleteUnsavedClearError(i)

SpecList == InitApp /\ [][NextList]_vars

-----------------------------------------------------------------------------
(* Claims about validatePattern, checked under SpecValidate *)

HasForeignSymbol(p) == \E i \in 1..Len(p) : p[i] \notin Digits \cup {Wildcard}
HasWildcard(p) == \E i \in 1..Len(p) : p[i] = Wildcard
FirstIndex(p, c) == CHOOSE i \in 1..Len(p) : p[i] = c /\ \A j \in 1..(i - 1) : p[j] # c

\* C4: the checks run in the order empty, length, symbols, wildcard, the first
\* failing one is reported, and no error is returned exactly for a template of
\* length 10 made of digits and wildcards with at least one wildcard.
C4_CheckOrder ==
    pc = "validated" =>
      /\ Len(pattern) = 0 => error.kind = "EmptyInput"
      /\ Len(pattern) \notin {0, PatternLength} =>
            error.kind = "InvalidLength" /\ error.length = Len(pattern)
      /\ Len(pattern) = PatternLength /\ HasForeignSymbol(pattern) =>
            error.kind = "InvalidCharacters"
      /\ Len(pattern) = PatternLength /\ ~HasForeignSymbol(pattern)
            /\ ~HasWildcard(pattern) => error.kind = "NoVariableSlots"
      /\ error = NoError <=>
            /\ Len(pattern) = PatternLength
            /\ ~HasForeignSymbol(pattern)
            /\ HasWildcard(pattern)

\* a template with three defects (wrong length, foreign symbol, no wildcard)
\* was validated and got the error of the earliest check
C4_Witness ==
    /\ pc = "validated"
    /\ Len(pattern) = PatternLength + 1
    /\ HasForeignSymbol(pattern)
    /\ ~HasWildcard(pattern)
    /\ error.kind = "InvalidLength"

\* C5: an InvalidCharacters error for a 10-symbol template carries exactly the
\* symbols that are neither digit nor wildcard, each once, ordered by first
\* appearance in the template.
C5_InvalidCharsCarried ==
    pc = "validated" /\ Len(pattern) = PatternLength
        /\ error.kind = "InvalidCharacters" =>
      LET cs == error.chars IN
      /\ {cs[i] : i \in 1..Len(cs)} =
            {pattern[i] : i \in {j \in 1..Len(pattern) :
                                   pattern[j] \notin Digits \cup {Wildcard}}}
      /\ \A i, j \in 1..Len(cs) :
            i < j => FirstIndex(pattern, cs[i]) < FirstIndex(pattern, cs[j])

\* a 10-symbol template whose foreign symbols repeat out of order ("+", "a", "+")
C5_Witness ==
    /\ pc = "validated"
    /\ Len(pattern) = PatternLength
    /\ \E i, j, l \in 1..PatternLength :
          i < j /\ j < l /\ pattern[i] = "+" /\ pattern[j] = "a" /\ pattern[l] = "+"
    /\ error.kind = "InvalidCharacters"
    /\ error.chars = <<"+", "a">>

-----------------------------------------------------------------------------
(* Claims about generatePhoneNumbers, checked under Spec *)

ReturnedNumbers == {returned[i].number : i \in 1..Len(returned)}
WildcardPositions == {i \in 1..Len(pattern) : pattern[i] = Wildcard}

\* C1: the returned numbers are pairwise distinct and none of them is in the
\* exclusion set that was passed in.
C1_DistinctAndNotExcluded ==
    pc = "done" =>
      /\ \A i, j \in 1..Len(returned) :
            i # j => returned[i].number # returned[j].number
      /\ \A i \in 1..Len(returned) : returned[i].number \notin excludeSet

\* two numbers were returned although candidates were discarded as duplicates
\* of the non-empty exclusion set or of each other
C1_Witness ==
    /\ pc = "done"
    /\ excludeSet # {}
    /\ Len(returned) = 2
    /\ attempts > 2

\* C2: every returned number has length 10, keeps the template's symbol at
\* every fixed position and has a decimal digit at every wildcard position.
C2_MatchesTemplate ==
    pc = "done" =>
      \A n \in ReturnedNumbers :
        /\ Len(n) = PatternLength
        /\ \A i \in 1..Len(pattern) :
              IF pattern[i] = Wildcard THEN n[i] \in Digits ELSE n[i] = pattern[i]

\* a call on the template with wildcards at positions 2 and 6 returned
\* the number 05 2 123 1 456
C2_Witness ==
    /\ pc = "done"
    /\ pattern = TwoSlots
    /\ <<"0", "5", "2", "1", "2", "3", "1", "4", "5", "6">> \in ReturnedNumbers

\* a <= b for digit strings of equal length, symbol by symbol
LexLeq(a, b) ==
    \/ a = b
    \/ \E i \in 1..Len(a) :
          /\ \A j \in 1..(i - 1) : a[j] = b[j]
          /\ \E x, y \in 0..9 : DigitChars[x + 1] = a[i] /\ DigitChars[y + 1] = b[i] /\ x < y

\* C3: the returned sequence is sorted ascending by number.
C3_SortedAscending ==
    pc = "done" =>
      \A i \in 1..(Len(returned) - 1) :
         LexLeq(returned[i].number, returned[i + 1].number)

\* the number accepted second is returned first: the sort reordered the list
C3_Witness ==
    /\ pc = "done"
    /\ excludeSet = {}
    /\ Len(returned) = 2
    /\ returned[1].id = <<"2">>
    /\ returned[2].id = <<"1">>

\* min(count, max(0, 10^numUnknowns - |exclusionSet|)), written out
SpaceSize == Pow10(Cardinality(WildcardPositions))
EffectiveTarget ==
    LET achievable == IF SpaceSize > Cardinality(excludeSet)
                      THEN SpaceSize - Cardinality(excludeSet) ELSE 0
    IN IF count < achievable THEN count ELSE achievable

C10_LooseNeverRejects ==
    /\ [](density = 100 /\ pc = "slot" =>
             \A n \in AllDigits : ~Rejects(DigitToString(n)))
    /\ [][density = 100 =>
            /\ pc = "slot" =>
                  /\ pc' \in {"slot", "assemble"}
                  /\ Len(candidateDigits') = Len(candidateDigits) + 1
            /\ pc = "assemble" /\ Len(results') = Len(results) =>
                  numberStr \in generatedSet]_vars

\* with density 1.0 a candidate with the same digit in all three slots is
\* complete and is then dropped as a member of the working set
C10_Witness ==
    /\ options = Options(100)
    /\ pc = "assemble"
    /\ candidateDigits = <<"1", "1", "1">>
    /\ numberStr \in generatedSet

-----------------------------------------------------------------------------
(* Claims about the attempt cap, checked under SpecCap *)

FreeOneSlotNumber == Splice(OneSlot, <<"1">>)
CapScenario ==
    /\ pattern = OneSlot
    /\ count = 1000
    /\ excludeSet = OneSlotNumbers(OneSlot, AllDigits \ {1})

\* C7 as stated: count 1000, one wildcard, nine of ten numbers excluded
\* returns exactly one entity whatever the draws are.
C7_ExactlyOneAlways ==
    pc = "done" /\ CapScenario => Len(returned) = 1

\* C7 as amended: the call returns at most one entity, never 1000; the entity
\* is the one number that was not excluded, and the result is empty only
\* when all 1 * 200 + 5000 attempts drew an excluded number.
C7_AtMostOne ==
    pc = "done" /\ CapScenario =>
      /\ Len(returned) <= 1
      /\ Len(returned) = 1 => returned[1].number = FreeOneSlotNumber
      /\ Len(returned) = 0 => attempts = 5200

\* the one free number was found and returned after some duplicate draws
C7_Witness ==
    /\ pc = "done"
    /\ CapScenario
    /\ Len(returned) = 1
    /\ returned[1].number = FreeOneSlotNumber
    /\ attempts > 1

AttemptCap == EffectiveTarget * 200 + 5000

\* C8: every call returns; the attempt counter never exceeds
\* effectiveTarget * 200 + 5000; a candidate is under construction only while
\* fewer entities than the target are accepted; and at the loop test with the
\* target met or the cap reached the only step is the return.
C8_TerminatesWithinCap ==
    /\ <>(pc = "done")
    /\ [](attempts <= AttemptCap)
    /\ [](pc \in {"slot", "assemble"} => Len(results) < EffectiveTarget)
    /\ [][pc = "loop" /\ (Len(results) >= EffectiveTarget \/ attempts >= AttemptCap)
            => pc' = "done"]_vars
    /\ [](pc = "done" => Len(returned) = EffectiveTarget \/ attempts = AttemptCap)

\* a call with target 1 on two wildcards returned nothing after 5200
\* attempts, every one of them abandoned at the second slot
C8_Witness ==
    /\ pc = "done"
    /\ pattern = TwoSlots
    /\ EffectiveTarget = 1
    /\ returned = <<>>
    /\ attempts = 5200
    /\ attempts = maxAttempts

-----------------------------------------------------------------------------
(* Claims about the strict tier, checked under SpecStrict8 *)

\* the digits a number holds at the template's wildcard positions, in order
WildcardDigits(n) ==
    LET idx == MissingIndicesOf(pattern)
    IN [g \in 1..Len(idx) |-> n[idx[g] + 1]]

\* C9: with eight wildcards and density <= 0.4 (or no density given), no
\* returned number holds a digit more than 3 times at its wildcard positions,
\* and no two consecutive wildcard positions hold the same digit.
C9_StrictEight ==
    pc = "done" /\ Cardinality(WildcardPositions) = 8
        /\ (~options.defined \/ options.repetitionDensity <= 40) =>
      \A n \in ReturnedNumbers :
        LET w == WildcardDigits(n) IN
        /\ \A c \in Digits : Cardinality({g \in 1..8 : w[g] = c}) <= 3
        /\ \A g \in 1..7 : w[g] # w[g + 1]

\* a returned number that holds one digit exactly 3 times, on the template
\* whose third wildcard sits next to the fixed digit it repeats
C9_Witness ==
    /\ pc = "done"
    /\ pattern = EightSlotsSplit
    /\ options = Options(40)
    /\ \E n \in ReturnedNumbers :
          /\ n[3] = "1" /\ n[4] = "1"
          /\ \E c \in Digits :
                Cardinality({g \in 1..8 : WildcardDigits(n)[g] = c}) = 3


-----------------------------------------------------------------------------
(* Claims about the returned entities and the caller's set, under Spec *)

ReturnedIds == {returned[i].id : i \in 1..Len(returned)}
DecimalStrings(a, b) == {IntToString(j) : j \in a..b}
IdsUsedOnce ==
    \A i, j \in 1..Len(returned) : returned[i].id = returned[j].id => i = j

\* C11 as stated: for every call that returns n entities, with an empty or a
\* non-empty exclusion set, the ids are the decimal strings of 1..n, each
\* used exactly once.
C11_IdsFromOne ==
    pc = "done" =>
        /\ ReturnedIds = DecimalStrings(1, Len(returned))
        /\ IdsUsedOnce

\* C11: for every call that returns n entities on an exclusion set of s
\* members, the ids are the decimal strings of s+1..s+n, each used exactly
\* once; they are the strings of 1..n exactly when s = 0 or n = 0.
C11_IdsFromInitialSize ==
    pc = "done" =>
        /\ ReturnedIds = DecimalStrings(Cardinality(excludeSet) + 1,
                                        Cardinality(excludeSet) + Len(returned))
        /\ IdsUsedOnce
        /\ (ReturnedIds = DecimalStrings(1, Len(returned))
              <=> (excludeSet = {} \/ returned = <<>>))

\* a call with nine excluded numbers returned one entity, whose id is "10"
C11_Witness ==
    /\ pc = "done"
    /\ Cardinality(excludeSet) = 9
    /\ Len(returned) = 1
    /\ returned[1].id = <<"1", "0">>

InsideCall == pc \in {"start", "loop", "slot", "assemble"}
AcceptedNumbers == {results[i].number : i \in 1..Len(results)}

\* C12: no step of a call of generatePhoneNumbers changes the caller's
\* exclusion set, so after the call it has exactly the members it had before;
\* accepted numbers are added only to the working copy, which is the
\* exclusion set united with the numbers accepted so far.
C12_ExcludeSetNeverMutated ==
    /\ [][InsideCall => excludeSet' = excludeSet]_vars
    /\ [](pc \in {"loop", "slot", "assemble", "done"} =>
            generatedSet = excludeSet \cup AcceptedNumbers)

\* a call on a non-empty exclusion set returned an entity: the working copy
\* has grown and the caller's set has not
C12_Witness ==
    /\ pc = "done"
    /\ excludeSet # {}
    /\ Len(returned) >= 1
    /\ generatedSet # excludeSet
    /\ ReturnedNumbers \cap excludeSet = {}

-----------------------------------------------------------------------------
(* Purity of validatePattern, under SpecValidateTwice *)

ValidatorCallStep == pc \in {"validate", "validated"} /\ pc' # pc

\* C13: a second call of validatePattern on the same template returns what
\* the first returned, whatever tier is passed to either call and although
\* the tier was changed in between; the result is the one of the call
\* without options; and a call changes nothing but its own return value.
C13_ValidatePatternPure ==
    /\ [][pc = "validated" /\ pc' = "revalidated" => error' = error]_vars
    /\ [](pc \in {"validated", "revalidated"} =>
            error = validatePattern(pattern, Undefined))
    /\ [][ValidatorCallStep =>
            UNCHANGED <<config, app, generatedSet, results, attempts,
                        candidateDigits, digitCounts, k, retry,
                        returned>>]_vars

\* a template of ten digits was validated without options and again at the
\* loosest tier: both calls reported that it has no wildcard
C13_Witness ==
    /\ pc = "revalidated"
    /\ options = Options(100)
    /\ Len(pattern) = PatternLength
    /\ error = [kind |-> "NoVariableSlots"]

-----------------------------------------------------------------------------
(* The constraint profile, under SpecProfile *)

\* max(2, ceil(0.35 n)) and max(2, ceil(0.6 n)) for n = 1..10, written out
StrictCaps == <<2, 2, 2, 2, 2, 3, 3, 3, 4, 4>>
BalancedCaps == <<2, 2, 2, 3, 3, 4, 5, 5, 6, 6>>
Tier == IF options.defined THEN options.repetitionDensity ELSE 30
SlotCount == Cardinality(WildcardPositions)

\* C15: for every tier t in [0,1] and every n in 1..10 the profile follows
\* the table: t <= 0.4 gives cap max(2, ceil(0.35 n)), no adjacent duplicates,
\* no runs; 0.4 < t <= 0.7 gives cap max(2, ceil(0.6 n)) and both allowed
\* exactly when t > 0.55; t > 0.7 gives cap n and both allowed; an absent
\* tier behaves as 0.3.
C15_ProfileFollowsTable ==
    /\ Tier <= 40 =>
          /\ maxDigitFreq = StrictCaps[SlotCount]
          /\ ~allowAdjacentDuplicates
          /\ ~allowSequences
    /\ (40 < Tier /\ Tier <= 70) =>
          /\ maxDigitFreq = BalancedCaps[SlotCount]
          /\ allowAdjacentDuplicates = (Tier > 55)
          /\ allowSequences = (Tier > 55)
    /\ Tier > 70 =>
          /\ maxDigitFreq = SlotCount
          /\ allowAdjacentDuplicates
          /\ allowSequences

\* a call at exactly 0.55 on eight wildcards: the cap is 5, neither adjacent
\* duplicates nor runs are allowed
C15_Witness ==
    /\ pc = "done"
    /\ options = Options(55)
    /\ SlotCount = 8
    /\ maxDigitFreq = 5
    /\ ~allowAdjacentDuplicates
    /\ ~allowSequences

-----------------------------------------------------------------------------
(* The run rule, under SpecRuns *)

\* the integers a, b, c are consecutive, ascending or descending
IsRun(a, b, c) == (b = a + 1 /\ c = b + 1) \/ (b = a - 1 /\ c = b - 1)
HasRun(ds) ==
    \E g \in 1..(Len(ds) - 2) :
        IsRun(ParseInt(ds[g]), ParseInt(ds[g + 1]), ParseInt(ds[g + 2]))
LastTwoAre(a, b) ==
    k > 1 /\ candidateDigits[k - 1] = a /\ candidateDigits[k] = b

\* C16: when runs are disallowed (density <= 0.55) no returned number holds,
\* at three consecutive wildcard slots, digits d, d+1, d+2 or d, d-1, d-2;
\* the run rule rejects no digit at the first two wildcard slots; and after
\* 8,9 it does not reject 0, after 1,0 it does not reject 9 (no wrap-around).
C16_NoRunsWhenDisallowed ==
    /\ (pc = "done" /\ density <= 55) =>
          \A i \in 1..Len(returned) : ~HasRun(WildcardDigits(returned[i].number))
    /\ (pc = "slot" /\ k < 2) =>
          \A n \in AllDigits : ~SequenceRejects(DigitToString(n))
    /\ (pc = "slot" /\ LastTwoAre("8", "9")) => ~SequenceRejects("0")
    /\ (pc = "slot" /\ LastTwoAre("1", "0")) => ~SequenceRejects("9")

\* at density 0.55 a call on three wildcards returned the number whose
\* wildcard digits are 8, 9, 0
C16_Witness ==
    /\ pc = "done"
    /\ options = Options(55)
    /\ pattern = ThreeSlots
    /\ Len(returned) = 1
    /\ WildcardDigits(returned[1].number) = <<"8", "9", "0">>

-----------------------------------------------------------------------------
(* Abandoned and duplicate candidates, under Spec *)

\* the step that gives a candidate up: from a slot back to the loop test
AbandonStep == pc = "slot" /\ pc' = "loop"

\* C17: a candidate is abandoned only at the 20th rejected draw for one slot;
\* the step discards the placed digits, appends no entity, leaves the working
\* set and the attempt counter unchanged; while a slot is retried the retry
\* number grows by one and stays below 20; a slot is filled only with a digit
\* the rules admit; the attempt was counted once, when the candidate was
\* started; and the next candidate starts at the first slot with empty
\* digits and counts.
C17_AbandonWholeCandidate ==
    /\ [][AbandonStep =>
            /\ retry = SlotRetries - 1
            /\ candidateDigits' = <<>>
            /\ digitCounts' = NoCounts
            /\ results' = results
            /\ generatedSet' = generatedSet
            /\ attempts' = attempts]_vars
    /\ [][(pc = "slot" /\ pc' = "slot" /\ k' = k) =>
            (retry' = retry + 1 /\ retry' < SlotRetries)]_vars
    /\ [][(pc = "slot" /\ k' = k + 1) =>
            (~Rejects(candidateDigits'[k + 1]) /\ attempts' = attempts)]_vars
    /\ [][(pc = "loop" /\ pc' \in {"slot", "assemble"}) =>
            /\ attempts' = attempts + 1
            /\ candidateDigits' = <<>>
            /\ digitCounts' = NoCounts
            /\ k' = 0
            /\ retry' = 0]_vars

\* a call with nothing excluded is back at the loop test after its first
\* attempt, with no entity: the candidate was abandoned
C17_Witness ==
    /\ pc = "loop"
    /\ attempts = 1
    /\ results = <<>>
    /\ excludeSet = {}
    /\ generatedSet = {}
    /\ targetCount >= 1

\* the step that ends a fully built candidate
AssembleStep == pc = "assemble" /\ pc' = "loop"

\* C18: a fully built candidate whose number is in the working set is
\* discarded, leaving the result list and the working set unchanged; one
\* that is not is added to the working set and appended to the result list;
\* in both cases the attempt counter keeps the value it took when the
\* candidate was started, one more than before, and nothing else of the
\* candidate's steps touches the result list or the working set.
C18_DuplicateDiscarded ==
    /\ [][AssembleStep =>
            /\ attempts' = attempts
            /\ IF numberStr \in generatedSet
               THEN results' = results /\ generatedSet' = generatedSet
               ELSE /\ generatedSet' = generatedSet \cup {numberStr}
                    /\ Len(results') = Len(results) + 1
                    /\ SubSeq(results', 1, Len(results)) = results
                    /\ results'[Len(results')].number = numberStr]_vars
    /\ [][(pc = "loop" /\ pc' \in {"slot", "assemble"}) =>
            /\ attempts' = attempts + 1
            /\ results' = results
            /\ generatedSet' = generatedSet]_vars
    /\ [][pc = "slot" =>
            /\ attempts' = attempts
            /\ results' = results
            /\ generatedSet' = generatedSet]_vars

\* at the loosest tier, where no digit is ever rejected, a call with nothing
\* excluded has made two attempts and holds one entity: the second candidate
\* repeated the first and was discarded
C18_Witness ==
    /\ pc = "loop"
    /\ options = Options(100)
    /\ pattern = TwoSlots
    /\ excludeSet = {}
    /\ attempts = 2
    /\ Len(results) = 1
    /\ generatedSet = {results[1].number}

-----------------------------------------------------------------------------
(* Admissible digits, under SpecSlots *)

RejectedDigits == {n \in AllDigits : Rejects(DigitToString(n))}

\* C19: at every slot of every partially built candidate, for 1 to 10
\* wildcards and every profile, at least one of the ten digits passes the
\* frequency, adjacency and run rules together; so a candidate is abandoned
\* only after 20 draws that all missed an admissible digit.
C19_SomeDigitAdmissible ==
    /\ [](pc = "slot" => RejectedDigits # AllDigits)
    /\ [][AbandonStep =>
            (retry = SlotRetries - 1 /\ RejectedDigits # AllDigits)]_vars

\* the last slot of a strict candidate on ten wildcards: two digits are at
\* the cap of 4, a third is the previous digit, a fourth would complete a
\* run; six digits remain admissible
C19_Witness ==
    /\ pc = "slot"
    /\ numUnknowns = 10
    /\ k = 9
    /\ maxDigitFreq = 4
    /\ Cardinality(RejectedDigits) = 4

-----------------------------------------------------------------------------
(* The effective target against foreign exclusions, under SpecForeign *)

\* every number the template can produce
MatchingValues ==
    {Splice(pattern, ds) : ds \in [1..numUnknowns -> Digits]}
FreeValues == MatchingValues \ excludeSet

\* C20: if count >= 1 and at least one value matching the template is absent
\* from the exclusion set, the effective target is at least 1 and the call
\* attempts at least one candidate before it returns, also when the
\* exclusion set holds values that do not match the template.
C20_TargetWhenValueFree ==
    (count >= 1 /\ FreeValues # {}) =>
        /\ targetCount >= 1
        /\ pc = "done" => attempts >= 1

\* a call on one wildcard with ten excluded numbers of another template
\* returned nothing without an attempt, all ten of its values being free
C20_Witness ==
    /\ pc = "done"
    /\ pattern = OneSlot
    /\ count = 1
    /\ Cardinality(FreeValues) = 10
    /\ Cardinality(excludeSet) = 10
    /\ attempts = 0
    /\ returned = <<>>

-----------------------------------------------------------------------------
(* The form calls the generator only on validated input, under SpecApp *)

\* C14: on every path through startGeneration, whatever is typed between the
\* click and the timeout, generatePhoneNumbers is entered only with a
\* pattern that validatePattern accepts and a count in 1..10000; and a
\* callback is pending only for input that validateInputs accepted.
C14_GeneratorOnlyAfterValidation ==
    /\ pc = "start" =>
          /\ validatePattern(pattern, options) = NoError
          /\ count \in 1..10000
    /\ timer.set =>
          /\ validatePattern(timer.pattern, timer.options) = NoError
          /\ timer.count \in 1..10000

\* the generator is being entered on the template validated at the click,
\* with the largest count, while the form already shows a template without a
\* wildcard and an empty count
C14_Witness ==
    /\ pc = "start"
    /\ pattern = OneSlot
    /\ count = 10000
    /\ uiPattern = NoSlot
    /\ uiCount = EmptyCount
    /\ validatePattern(uiPattern, FormOptions) # NoError

-----------------------------------------------------------------------------
(* The accumulated list, under SpecList *)

NoDuplicateNumbers(contacts) ==
    \A i, j \in 1..Len(contacts) :
        contacts[i].number = contacts[j].number => i = j
SortedByNumber(contacts) ==
    \A i \in 1..(Len(contacts) - 1) :
        LexLeq(contacts[i].number, contacts[i + 1].number)
\* the four-symbol zero-padded decimal of a position below 10
ZeroPadded(i) == <<"0", "0", "0", DigitChars[i + 1]>>
IndexedByPosition(contacts) ==
    \A i \in 1..Len(contacts) : contacts[i].id = ZeroPadded(i)

\* the step in which a generation's callback ends
GenerateCompleted == pc = "done" /\ pc' = "idle"
\* the step in which a delete-unsaved callback runs
DeleteCompleted ==
    \E i \in 1..Len(pending) :
        pending[i].kind = "delete" /\ pending' = RemoveAt(pending, i)

\* C21: after any interleaving of generate (preview or save), save-list,
\* reset-saved, delete-unsaved and clear and of their delayed callbacks, the
\* accumulated list never holds two contacts with the same number; and after
\* each completed generate or delete-unsaved it is sorted ascending by number
\* with ids equal to the zero-padded positions 0001..n in list order.
C21_ListDistinctSortedIndexed ==
    /\ [](NoDuplicateNumbers(generatedContacts))
    /\ [][(GenerateCompleted \/ DeleteCompleted) =>
            /\ SortedByNumber(generatedContacts')
            /\ IndexedByPosition(generatedContacts')]_vars

\* the generator has returned new contacts to a callback whose list, taken
\* at the click, is no longer the form's list (a delete-unsaved callback has
\* emptied it since), while another delete-unsaved callback is still pending
C21_Witness ==
    /\ pc = "done"
    /\ timer.set
    /\ returned # <<>>
    /\ Len(timer.generatedContacts) = 1
    /\ generatedContacts = <<>>
    /\ \E i \in 1..Len(pending) : pending[i].kind = "delete"
=============================================================================
